---- MODULE Spec2Model ----
(***************************************************************************)
(* The ingestion pipeline of add_song.py (search -> download -> extract -> *)
(* store_in_database -> find_similar_songs) over the SQLAlchemy/SQLite     *)
(* catalog of backend/models.py.                                           *)
(*                                                                         *)
(* db is the committed content of the four tables; pend[p] holds the rows  *)
(* a session has flushed but not committed.  Each run of add_song is a     *)
(* process p; pc[p] is the statement it is about to execute.               *)
(***************************************************************************)
EXTENDS Integers, Sequences, FiniteSets, TLC

\* ------------------------------------------------------------------ values

\* Python's None where the other values are strings
None == "None"
\* Python's None where the other values are dicts
NoneRec == [none |-> TRUE]

\* a local that was never assigned
Unbound == [unbound |-> TRUE]
\* Python's None where the other values are row ids (the falsy value tested
\* by `if not track_id`); SQLite row ids start at 1
NoId == 0

Procs == {"p1", "p2"}

\* the process of the sequential runs
Main == "p1"

\* number of invocations of add_song and of the job in a behaviour
MaxRuns == 3

ArtistNames == {"a1", "a2"}
AlbumNames == {"b1"}
TrackNames == {"t1"}
SpotifyIds == {None, "x1", "x2"}

\* what search_spotify can return when it finds the song
TrackInfos ==
    [name : TrackNames, artist : ArtistNames, album : AlbumNames,
     spotify_id : SpotifyIds]

\* what extract_features can return when it succeeds: tempo in BPM, energy,
\* valence and danceability in hundredths
FeatureDicts ==
    { [tempo |-> 120, energy |-> 80, danceability |-> 70, valence |-> 60],
      [tempo |-> 60, energy |-> 10, danceability |-> 10, valence |-> 10] }

\* SQL NULL (Python's None) in a Float column
NullNum == -1000000

\* what sp.audio_features can return for a track: nothing, all four
\* features, or a dict in which features.get('tempo') is None
JobFeatureDicts ==
    { [tempo |-> 100, energy |-> 50, danceability |-> 50, valence |-> 50],
      [tempo |-> NullNum, energy |-> 50, danceability |-> 50, valence |-> 50] }

\* the features the ranker is applied to: those of FeatureDicts, silence, and
\* a vector opposite to the first
RankFeatureDicts ==
    FeatureDicts \cup
    { [tempo |-> 0, energy |-> 0, danceability |-> 0, valence |-> 0],
      [tempo |-> -120, energy |-> -80, danceability |-> -70, valence |-> -60] }

\* the worked example: the corpus tracks B and A, stored in that order, and
\* the query track Q
ExampleFeatures ==
    << [tempo |-> 60, energy |-> 10, danceability |-> 10, valence |-> 10],
       [tempo |-> 120, energy |-> 80, danceability |-> 70, valence |-> 60],
       [tempo |-> 121, energy |-> 79, danceability |-> 71, valence |-> 61] >>

MaxTracks == 4

TNames == <<"t1", "t2", "t3", "t4", "t5", "t6">>

\* the sign of the rounding error of a float64 score (computed - exact);
\* its size is far below the 1e-9 the scores are compared to
Errs == {-1, 0, 1}

\* default of the limit parameter of find_similar_songs
DefaultLimit == 5

\* the limits find_similar_songs is called with
Limits == {0, 1, 2, DefaultLimit}

\* ------------------------------------------------------------------ tables

EmptyRows == [artists |-> {}, albums |-> {}, tracks |-> {}, features |-> {}]

Merge(d, s) ==
    [artists |-> d.artists \cup s.artists,
     albums |-> d.albums \cup s.albums,
     tracks |-> d.tracks \cup s.tracks,
     features |-> d.features \cup s.features]

Ids(rows) == {r.id : r \in rows}

MaxOf(S) == CHOOSE m \in S : \A n \in S : n <= m

\* INTEGER PRIMARY KEY: the row id SQLite gives a new row
NextId(rows) == IF rows = {} THEN 1 ELSE MaxOf(Ids(rows)) + 1

\* an artist lookup that matches no row
QueryArtist_NeverFinds(rows, name) == {}

\* db.query(Artist).filter_by(name=...)
QueryArtist(rows, name) == {a \in rows : a.name = name}

\* an album query by name only
QueryAlbum_ByNameOnly(rows, name, aid) == {a \in rows : a.name = name}

\* an album query that finds nothing
QueryAlbum_NeverFinds(rows, name, aid) == {}

\* db.query(Album).filter_by(name=..., artist_id=...)
QueryAlbum(rows, name, aid) ==
    {a \in rows : a.name = name /\ a.artist_id = aid}

\* a track lookup that matches no row
QueryTrack_NeverFinds(rows, sid) == {}

\* db.query(Track).filter_by(spotify_id=...): filter_by compares with ==,
\* which SQLAlchemy renders as IS NULL for None, so None matches the rows
\* whose spotify_id is NULL
QueryTrack(rows, sid) == {t \in rows : t.spotify_id = sid}

\* db.commit(): the flushed rows become visible to every session
Commit(d, s) == [db |-> Merge(d, s), pend |-> EmptyRows]

\* a rollback that also discards the committed rows
Rollback_DropsAll(d, s) == [db |-> EmptyRows, pend |-> EmptyRows]

\* an except clause that keeps the flushed rows
Rollback_Keeps(d, s) == [db |-> Merge(d, s), pend |-> EmptyRows]

\* db.rollback() in the except clause
Rollback(d, s) == [db |-> d, pend |-> EmptyRows]

\* a close that commits what was flushed
Close_Commits(d, s) == [db |-> Merge(d, s), pend |-> EmptyRows]

\* db.close() in the finally clause: what was not committed is discarded
Close(d, s) == [db |-> d, pend |-> EmptyRows]

\* ------------------------------------------------------------------ add_song

\* `if not track_info: return`
AfterSearch(info) == IF info = NoneRec THEN "done" ELSE "download"

\* add_song downloading again after a failed download
AfterDownload_Retry(path) == IF path = None THEN "download" ELSE "extract"

\* add_song without the return after a failed download
AfterDownload_NoReturn(path) == "extract"

\* `if not filepath: return`
AfterDownload(path) == IF path = None THEN "done" ELSE "extract"

\* `if not features: return`
AfterExtract(f) == IF f = NoneRec THEN "done" ELSE "artist_q"

\* `if not track_id: return`
AfterStore(tid) == IF tid = NoId THEN "done" ELSE "rank"

\* every exit of add_song is a bare `return` or the end of the function
AddSongReturn(exit) == None

StorePcs ==
    {"artist_q", "artist_ins", "album_q", "album_ins", "track_q",
     "track_ins", "commit"}

NoCalls == [search |-> 0, download |-> 0, extract |-> 0, store |-> 0, rank |-> 0]

NoLoc == [artist |-> NoId, album |-> NoId, track |-> NoId]

VARIABLES
    db,          \* committed rows of artists, albums, tracks, audio_features
    pend,        \* pend[p]: rows flushed by p's session, not yet committed
    writer,      \* the session holding SQLite's write lock, or None
    pc,          \* pc[p]: where run p stands
    track_info,  \* locals of add_song
    filepath,
    features,
    track_id,
    similar,
    store_loc,   \* locals of store_in_database: artist.id, album.id, track.id
    store_ret,   \* which return of store_in_database was taken
    calls,       \* calls[p][s]: calls of stage s made by the current run of p
    runs,        \* invocations of add_song and of the job so far
    limit,       \* limit[p]: the limit of p's find_similar_songs call
    rounding,    \* rounding[p]: the rounding errors of the scores of that call
    job_pc,      \* where the fetch_audio_features job stands
    job_tracks,  \* the ids of the tracks its query returned
    job_runs,    \* runs of the job so far
    scanned,     \* scanned[p]: the rows the corpus query of p's call returned
    norm_in,     \* the string given to normalize_track_id
    norm_out     \* what its successive applications returned

vars ==
    <<db, pend, writer, pc, track_info, filepath, features, track_id,
      similar, store_loc, store_ret, calls, runs, limit, rounding,
      job_pc, job_tracks, job_runs, scanned, norm_in, norm_out>>

rankArgs == <<limit, rounding, scanned>>

normVars == <<norm_in, norm_out>>

jobVars == <<job_pc, job_tracks, job_runs>>

addSongLocals == <<track_info, filepath, features, track_id, similar>>

\* the rows p's session sees: committed rows and its own flushed rows
Visible(p) == Merge(db, pend[p])

Active(p) == pc[p] \notin {"idle", "done", "crashed"}

Init ==
    /\ db = EmptyRows
    /\ pend = [p \in Procs |-> EmptyRows]
    /\ writer = None
    /\ pc = [p \in Procs |-> "idle"]
    /\ track_info = [p \in Procs |-> NoneRec]
    /\ filepath = [p \in Procs |-> None]
    /\ features = [p \in Procs |-> NoneRec]
    /\ track_id = [p \in Procs |-> NoId]
    /\ similar = [p \in Procs |-> <<>>]
    /\ store_loc = [p \in Procs |-> NoLoc]
    /\ store_ret = [p \in Procs |-> "none"]
    /\ calls = [p \in Procs |-> NoCalls]
    /\ runs = 0
    /\ limit = [p \in Procs |-> DefaultLimit]
    /\ rounding = [p \in Procs |-> <<>>]
    /\ job_pc = "idle"
    /\ job_tracks = {}
    /\ job_runs = 0
    /\ scanned = [p \in Procs |-> {}]
    /\ norm_in = <<>>
    /\ norm_out = <<>>

\* ------------------------------------------------------------------ find_similar_songs

\* a vector whose tempo component is tempo / 100
FeatureVector_TempoOver100(f) ==
    <<f.energy * 2, f.valence * 2, f.tempo * 2, f.danceability * 2>>

\* np.array([[energy, valence, tempo / 200, danceability]]), written in
\* two-hundredths: energy, valence and danceability are kept in hundredths
FeatureVector(f) == <<f.energy * 2, f.valence * 2, f.tempo, f.danceability * 2>>

Dot(a, b) == a[1] * b[1] + a[2] * b[2] + a[3] * b[3] + a[4] * b[4]

Abs(x) == IF x < 0 THEN 0 - x ELSE x

RECURSIVE GCD(_, _)
GCD(m, n) == IF n = 0 THEN m ELSE GCD(n, m % n)

\* a vector divided by the greatest common divisor of its components: the
\* normalisation to unit length makes the score independent of the length
\* of each vector
Primitive(v) ==
    LET g == GCD(GCD(Abs(v[1]), Abs(v[2])), GCD(Abs(v[3]), Abs(v[4])))
    IN IF g = 0 THEN v
       ELSE <<v[1] \div g, v[2] \div g, v[3] \div g, v[4] \div g>>

\* a cosine that scores a zero vector 1
CosineSimilarity_ZeroScoresOne(a, b, e) ==
    IF Dot(a, a) = 0 \/ Dot(b, b) = 0
    THEN [num |-> 1, den2 |-> 1, err |-> 0]
    ELSE [num |-> Dot(Primitive(a), Primitive(b)),
          den2 |-> Dot(Primitive(a), Primitive(a))
                      * Dot(Primitive(b), Primitive(b)),
          err |-> e]

\* a cosine that divides by the length of the first vector only
CosineSimilarity_OneNorm(a, b, e) ==
    IF Dot(a, a) = 0 \/ Dot(b, b) = 0
    THEN [num |-> 0, den2 |-> 1, err |-> 0]
    ELSE [num |-> Dot(Primitive(a), Primitive(b)),
          den2 |-> Dot(Primitive(a), Primitive(a)),
          err |-> e]

\* sklearn's cosine_similarity: both vectors are normalised to unit length,
\* a zero vector being left as it is, and the score is the dot product of the
\* two.  The exact value is num / sqrt(den2); the float64 result differs from
\* it by a rounding error of sign e, and is exactly 0 for a zero vector.
CosineSimilarity(a, b, e) ==
    IF Dot(a, a) = 0 \/ Dot(b, b) = 0
    THEN [num |-> 0, den2 |-> 1, err |-> 0]
    ELSE [num |-> Dot(Primitive(a), Primitive(b)),
          den2 |-> Dot(Primitive(a), Primitive(a))
                      * Dot(Primitive(b), Primitive(b)),
          err |-> e]

SignedSquare(x) == IF x < 0 THEN 0 - x * x ELSE x * x

\* the exact values of s and t compared: 1 if s is greater, -1 if t is
ExactCompare(s, t) ==
    LET g == GCD(s.den2, t.den2)
        l == SignedSquare(s.num) * (t.den2 \div g)
        r == SignedSquare(t.num) * (s.den2 \div g)
    IN IF l > r THEN 1 ELSE IF l < r THEN -1 ELSE 0

\* s > t as float64 numbers
ScoreGreater(s, t) ==
    \/ ExactCompare(s, t) = 1
    \/ ExactCompare(s, t) = 0 /\ s.err > t.err

\* the rows of a table in row id order, the order of a table scan
RECURSIVE RowsInOrder(_)
RowsInOrder(rows) ==
    IF rows = {} THEN <<>>
    ELSE LET first == CHOOSE r \in rows : \A o \in rows : r.id <= o.id
         IN <<first>> \o RowsInOrder(rows \ {first})

\* query.first()
First(rows) == RowsInOrder(rows)[1]

\* db.query(AudioFeature).filter_by(track_id=track_id)
CurrentRows(d, tid) == {f \in d.features : f.track_id = tid}

\* a corpus query without the filter
OtherRows_All(d, tid) == d.features

\* a corpus query that keeps the tracks after the query track only
OtherRows_Later(d, tid) == {f \in d.features : f.track_id > tid}

\* db.query(AudioFeature).filter(AudioFeature.track_id != track_id)
OtherRows(d, tid) == {f \in d.features : f.track_id # tid}

\* the vectors whose score is subject to rounding
RoundedVectors(d, tid) ==
    {FeatureVector(f) : f \in {o \in OtherRows(d, tid) :
                                 Dot(FeatureVector(o), FeatureVector(o)) # 0}}

\* the rounding errors the scores of one call can have: the same two vectors
\* always give the same float64 score
Roundings(d, tid) ==
    IF CurrentRows(d, tid) = {} THEN {<<>>}
    ELSE [RoundedVectors(d, tid) -> Errs]

ErrOf(fl, v) == IF v \in DOMAIN fl THEN fl[v] ELSE 0

HasNull(f) ==
    \/ f.energy = NullNum
    \/ f.valence = NullNum
    \/ f.tempo = NullNum
    \/ f.danceability = NullNum

\* the dict appended to similarities for one row of all_features
SimilarityEntry(d, current, feature, fl) ==
    LET track == First({t \in d.tracks : t.id = feature.track_id})
        artist == First({a \in d.artists : a.id = track.artist_id})
    IN [track |-> track.name,
        artist |-> artist.name,
        similarity |->
            CosineSimilarity(FeatureVector(current), FeatureVector(feature),
                             ErrOf(fl, FeatureVector(feature))),
        features |->
            [energy |-> feature.energy, valence |-> feature.valence,
             tempo |-> feature.tempo, danceability |-> feature.danceability]]

\* a sort in ascending order
RECURSIVE InsertSorted_Ascending(_, _)
InsertSorted_Ascending(sorted, e) ==
    IF sorted = <<>> THEN <<e>>
    ELSE IF ScoreGreater(Head(sorted).similarity, e.similarity)
         THEN <<e>> \o sorted
         ELSE <<Head(sorted)>> \o InsertSorted_Ascending(Tail(sorted), e)

\* a sort that puts an entry before the entries of equal score
RECURSIVE InsertSorted_TiesFirst(_, _)
InsertSorted_TiesFirst(sorted, e) ==
    IF sorted = <<>> THEN <<e>>
    ELSE IF ~ScoreGreater(Head(sorted).similarity, e.similarity)
         THEN <<e>> \o sorted
         ELSE <<Head(sorted)>> \o InsertSorted_TiesFirst(Tail(sorted), e)

\* e put into a list sorted in descending order, after the entries that are
\* not smaller
RECURSIVE InsertSorted(_, _)
InsertSorted(sorted, e) ==
    IF sorted = <<>> THEN <<e>>
    ELSE IF ScoreGreater(e.similarity, Head(sorted).similarity)
         THEN <<e>> \o sorted
         ELSE <<Head(sorted)>> \o InsertSorted(Tail(sorted), e)

\* the list left in corpus order
SortBySimilarity_Unsorted(entries) == entries

\* list.sort(key=similarity, reverse=True): descending and stable
RECURSIVE SortBySimilarity(_)
SortBySimilarity(entries) ==
    IF entries = <<>> THEN <<>>
    ELSE InsertSorted(SortBySimilarity(SubSeq(entries, 1, Len(entries) - 1)),
                      entries[Len(entries)])

\* a slice that stops one entry early
Truncate_OneShort(seq, k) ==
    SubSeq(seq, 1, IF Len(seq) < k - 1 THEN Len(seq) ELSE k - 1)

\* similarities[:k]; a negative k counts from the end of the list
Truncate(seq, k) ==
    IF k >= 0
    THEN SubSeq(seq, 1, IF Len(seq) < k THEN Len(seq) ELSE k)
    ELSE SubSeq(seq, 1, IF Len(seq) + k < 0 THEN 0 ELSE Len(seq) + k)

\* a ranking that takes the features extracted in the run as the query
\* vector
Similarities_UsesExtracted(d, tid, fl) ==
    LET all_features == RowsInOrder(OtherRows(d, tid))
        current == features[Main]
    IN SortBySimilarity(
           [i \in 1..Len(all_features) |->
               SimilarityEntry(d, current, all_features[i], fl)])

\* the list similarities after the sort
Similarities(d, tid, fl) ==
    LET all_features == RowsInOrder(OtherRows(d, tid))
        current == First(CurrentRows(d, tid))
    IN SortBySimilarity(
           [i \in 1..Len(all_features) |->
               SimilarityEntry(d, current, all_features[i], fl)])

\* what find_similar_songs returns when it does not raise
FindSimilarSongs(d, tid, k, fl) ==
    IF CurrentRows(d, tid) = {} THEN <<>>
    ELSE IF OtherRows(d, tid) = {} THEN <<>>
    ELSE Truncate(Similarities(d, tid, fl), k)

\* a call that runs the corpus query before it looks at the query track
CorpusScanned_Always(d, tid) == OtherRows(d, tid)

\* the rows the corpus query returns to the call: none when the call
\* returns before it, for want of a feature row of the query track
CorpusScanned(d, tid) ==
    IF CurrentRows(d, tid) = {} THEN {} ELSE OtherRows(d, tid)

\* find_similar_songs raises on the rows it reads: None / 200 is a
\* TypeError, cosine_similarity rejects a vector with a None, and
\* track.name or artist.name of a row that does not exist is an
\* AttributeError
FindSimilarRaises(d, tid) ==
    /\ CurrentRows(d, tid) # {}
    /\ OtherRows(d, tid) # {}
    /\ \/ HasNull(First(CurrentRows(d, tid)))
       \/ \E f \in OtherRows(d, tid) :
             \/ HasNull(f)
             \/ \A t \in d.tracks : t.id # f.track_id
             \/ \E t \in d.tracks :
                   /\ t.id = f.track_id
                   /\ \A a \in d.artists : a.id # t.artist_id

\* ------------------------------------------------------------------ actions

\* add_song is called and calls search_spotify
Search(p) ==
    /\ UNCHANGED normVars
    /\ pc[p] \in {"idle", "done", "crashed"}
    /\ rounding' = [rounding EXCEPT ![p] = <<>>]
    /\ scanned' = [scanned EXCEPT ![p] = {}]
    /\ UNCHANGED <<limit, jobVars>>
    /\ runs < MaxRuns
    /\ runs' = runs + 1
    /\ \E info \in TrackInfos \cup {NoneRec} :
        /\ track_info' = [track_info EXCEPT ![p] = info]
        /\ pc' = [pc EXCEPT ![p] = AfterSearch(info)]
    /\ filepath' = [filepath EXCEPT ![p] = None]
    /\ features' = [features EXCEPT ![p] = NoneRec]
    /\ track_id' = [track_id EXCEPT ![p] = NoId]
    /\ similar' = [similar EXCEPT ![p] = <<>>]
    /\ store_loc' = [store_loc EXCEPT ![p] = NoLoc]
    /\ store_ret' = [store_ret EXCEPT ![p] = "none"]
    /\ calls' = [calls EXCEPT ![p] = [NoCalls EXCEPT !.search = 1]]
    /\ UNCHANGED <<db, pend, writer>>

\* add_song is called and search_spotify raises (no credentials, a request
\* that times out): it catches nothing and neither does add_song, so the run
\* ends with the exception and track_info is never bound
SearchFail(p) ==
    /\ UNCHANGED normVars
    /\ pc[p] \in {"idle", "done", "crashed"}
    /\ rounding' = [rounding EXCEPT ![p] = <<>>]
    /\ scanned' = [scanned EXCEPT ![p] = {}]
    /\ UNCHANGED <<limit, jobVars>>
    /\ runs < MaxRuns
    /\ runs' = runs + 1
    /\ track_info' = [track_info EXCEPT ![p] = Unbound]
    /\ pc' = [pc EXCEPT ![p] = "crashed"]
    /\ filepath' = [filepath EXCEPT ![p] = None]
    /\ features' = [features EXCEPT ![p] = NoneRec]
    /\ track_id' = [track_id EXCEPT ![p] = NoId]
    /\ similar' = [similar EXCEPT ![p] = <<>>]
    /\ store_loc' = [store_loc EXCEPT ![p] = NoLoc]
    /\ store_ret' = [store_ret EXCEPT ![p] = "none"]
    /\ calls' = [calls EXCEPT ![p] = [NoCalls EXCEPT !.search = 1]]
    /\ UNCHANGED <<db, pend, writer>>

\* a download stage that already stores the artist
Download_WritesArtist(p) ==
    /\ UNCHANGED normVars
    /\ UNCHANGED <<rankArgs, jobVars>>
    /\ pc[p] = "download"
    /\ \E path \in {None, "mp3"} :
        /\ filepath' = [filepath EXCEPT ![p] = path]
        /\ pc' = [pc EXCEPT ![p] = AfterDownload(path)]
    /\ calls' = [calls EXCEPT ![p].download = @ + 1]
    /\ db' = [db EXCEPT !.artists =
                @ \cup {[id |-> NextId(db.artists),
                         name |-> track_info[p].artist, spotify_id |-> None]}]
    /\ UNCHANGED <<pend, writer, track_info, features, track_id, similar,
                   store_loc, store_ret, runs>>

\* download_audio: the path of the mp3, or None
Download(p) ==
    /\ UNCHANGED normVars
    /\ UNCHANGED <<rankArgs, jobVars>>
    /\ pc[p] = "download"
    /\ \E path \in {None, "mp3"} :
        /\ filepath' = [filepath EXCEPT ![p] = path]
        /\ pc' = [pc EXCEPT ![p] = AfterDownload(path)]
    /\ calls' = [calls EXCEPT ![p].download = @ + 1]
    /\ UNCHANGED <<db, pend, writer, track_info, features, track_id, similar,
                   store_loc, store_ret, runs>>

\* an extractor whose dict has no tempo value
Extract_NoTempo(p) ==
    /\ UNCHANGED normVars
    /\ UNCHANGED <<rankArgs, jobVars>>
    /\ pc[p] = "extract"
    /\ \E f \in (IF filepath[p] = None THEN {} ELSE FeatureDicts) \cup {NoneRec} :
        /\ features' = [features EXCEPT ![p] =
                          IF f = NoneRec THEN f ELSE [f EXCEPT !.tempo = NullNum]]
        /\ pc' = [pc EXCEPT ![p] = AfterExtract(f)]
    /\ calls' = [calls EXCEPT ![p].extract = @ + 1]
    /\ UNCHANGED <<db, pend, writer, track_info, filepath, track_id, similar,
                   store_loc, store_ret, runs>>

\* extract_features: the four features, or None (also for a path of None,
\* where librosa.load raises inside the try)
Extract(p) ==
    /\ UNCHANGED normVars
    /\ UNCHANGED <<rankArgs, jobVars>>
    /\ pc[p] = "extract"
    /\ \E f \in (IF filepath[p] = None THEN {} ELSE FeatureDicts) \cup {NoneRec} :
        /\ features' = [features EXCEPT ![p] = f]
        /\ pc' = [pc EXCEPT ![p] = AfterExtract(f)]
    /\ calls' = [calls EXCEPT ![p].extract = @ + 1]
    /\ UNCHANGED <<db, pend, writer, track_info, filepath, track_id, similar,
                   store_loc, store_ret, runs>>

\* store_in_database is called: db = SessionLocal() and the artist query
StoreQueryArtist(p) ==
    /\ UNCHANGED normVars
    /\ UNCHANGED <<rankArgs, jobVars>>
    /\ pc[p] = "artist_q"
    /\ calls' = [calls EXCEPT ![p].store = @ + 1]
    /\ LET found == QueryArtist(Visible(p).artists, track_info[p].artist)
       IN IF found = {}
          THEN /\ pc' = [pc EXCEPT ![p] = "artist_ins"]
               /\ UNCHANGED store_loc
          ELSE /\ pc' = [pc EXCEPT ![p] = "album_q"]
               /\ store_loc' = [store_loc EXCEPT ![p].artist = First(found).id]
    /\ UNCHANGED <<db, pend, writer, addSongLocals, store_ret, runs>>

\* db.add(artist); db.flush(): the INSERT takes SQLite's write lock
StoreInsertArtist(p) ==
    /\ UNCHANGED normVars
    /\ UNCHANGED <<rankArgs, jobVars>>
    /\ pc[p] = "artist_ins"
    /\ writer \in {None, p}
    /\ writer' = p
    /\ LET id == NextId(Visible(p).artists)
       IN /\ pend' = [pend EXCEPT ![p].artists =
                        @ \cup {[id |-> id, name |-> track_info[p].artist,
                                 spotify_id |-> None]}]
          /\ store_loc' = [store_loc EXCEPT ![p].artist = id]
    /\ pc' = [pc EXCEPT ![p] = "album_q"]
    /\ UNCHANGED <<db, addSongLocals, store_ret, calls, runs>>

StoreQueryAlbum(p) ==
    /\ UNCHANGED normVars
    /\ UNCHANGED <<rankArgs, jobVars>>
    /\ pc[p] = "album_q"
    /\ LET found == QueryAlbum(Visible(p).albums, track_info[p].album,
                               store_loc[p].artist)
       IN IF found = {}
          THEN /\ pc' = [pc EXCEPT ![p] = "album_ins"]
               /\ UNCHANGED store_loc
          ELSE /\ pc' = [pc EXCEPT ![p] = "track_q"]
               /\ store_loc' = [store_loc EXCEPT ![p].album = First(found).id]
    /\ UNCHANGED <<db, pend, writer, addSongLocals, store_ret, calls, runs>>

StoreInsertAlbum(p) ==
    /\ UNCHANGED normVars
    /\ UNCHANGED <<rankArgs, jobVars>>
    /\ pc[p] = "album_ins"
    /\ writer \in {None, p}
    /\ writer' = p
    /\ LET id == NextId(Visible(p).albums)
       IN /\ pend' = [pend EXCEPT ![p].albums =
                        @ \cup {[id |-> id, name |-> track_info[p].album,
                                 artist_id |-> store_loc[p].artist,
                                 spotify_id |-> None]}]
          /\ store_loc' = [store_loc EXCEPT ![p].album = id]
    /\ pc' = [pc EXCEPT ![p] = "track_q"]
    /\ UNCHANGED <<db, addSongLocals, store_ret, calls, runs>>

\* the track query; `if track: return track.id`, then db.close()
StoreQueryTrack(p) ==
    /\ UNCHANGED normVars
    /\ UNCHANGED <<rankArgs, jobVars>>
    /\ pc[p] = "track_q"
    /\ LET found == QueryTrack(Visible(p).tracks, track_info[p].spotify_id)
       IN IF found = {}
          THEN /\ pc' = [pc EXCEPT ![p] = "track_ins"]
               /\ UNCHANGED <<db, pend, writer, track_id, store_ret>>
          ELSE LET closed == Close(db, pend[p])
               IN /\ db' = closed.db
                  /\ pend' = [pend EXCEPT ![p] = closed.pend]
                  /\ writer' = IF writer = p THEN None ELSE writer
                  /\ track_id' = [track_id EXCEPT ![p] = First(found).id]
                  /\ store_ret' = [store_ret EXCEPT ![p] = "existing"]
                  /\ pc' = [pc EXCEPT ![p] = AfterStore(First(found).id)]
    /\ UNCHANGED <<track_info, filepath, features, similar, store_loc, calls,
                   runs>>

\* db.add(track); db.flush()
StoreInsertTrack(p) ==
    /\ UNCHANGED normVars
    /\ UNCHANGED <<rankArgs, jobVars>>
    /\ pc[p] = "track_ins"
    /\ writer \in {None, p}
    /\ writer' = p
    /\ LET id == NextId(Visible(p).tracks)
       IN /\ pend' = [pend EXCEPT ![p].tracks =
                        @ \cup {[id |-> id, name |-> track_info[p].name,
                                 artist_id |-> store_loc[p].artist,
                                 album_id |-> store_loc[p].album,
                                 spotify_id |-> track_info[p].spotify_id,
                                 preview_url |-> None]}]
          /\ store_loc' = [store_loc EXCEPT ![p].track = id]
    /\ pc' = [pc EXCEPT ![p] = "commit"]
    /\ UNCHANGED <<db, addSongLocals, store_ret, calls, runs>>

\* a commit of the track without its audio feature row
StoreCommit_NoFeature(p) ==
    /\ UNCHANGED normVars
    /\ UNCHANGED <<rankArgs, jobVars>>
    /\ pc[p] = "commit"
    /\ writer \in {None, p}
    /\ LET committed == Commit(db, pend[p])
           closed == Close(committed.db, committed.pend)
       IN /\ db' = closed.db
          /\ pend' = [pend EXCEPT ![p] = closed.pend]
    /\ writer' = None
    /\ track_id' = [track_id EXCEPT ![p] = store_loc[p].track]
    /\ store_ret' = [store_ret EXCEPT ![p] = "created"]
    /\ pc' = [pc EXCEPT ![p] = AfterStore(store_loc[p].track)]
    /\ UNCHANGED <<track_info, filepath, features, similar, store_loc, calls,
                   runs>>

\* db.add(audio_feature); db.commit(); return track.id, then db.close()
StoreCommit(p) ==
    /\ UNCHANGED normVars
    /\ UNCHANGED <<rankArgs, jobVars>>
    /\ pc[p] = "commit"
    /\ writer \in {None, p}
    /\ LET row == [id |-> NextId(Visible(p).features),
                   track_id |-> store_loc[p].track,
                   energy |-> features[p].energy,
                   valence |-> features[p].valence,
                   tempo |-> features[p].tempo,
                   danceability |-> features[p].danceability]
           flushed == [pend[p] EXCEPT !.features = @ \cup {row}]
           committed == Commit(db, flushed)
           closed == Close(committed.db, committed.pend)
       IN /\ db' = closed.db
          /\ pend' = [pend EXCEPT ![p] = closed.pend]
    /\ writer' = None
    /\ track_id' = [track_id EXCEPT ![p] = store_loc[p].track]
    /\ store_ret' = [store_ret EXCEPT ![p] = "created"]
    /\ pc' = [pc EXCEPT ![p] = AfterStore(store_loc[p].track)]
    /\ UNCHANGED <<track_info, filepath, features, similar, store_loc, calls,
                   runs>>

\* any statement of the try block raises (storage unavailable, database is
\* locked): db.rollback(); return None, then db.close()
StoreFail(p) ==
    /\ UNCHANGED normVars
    /\ UNCHANGED <<rankArgs, jobVars>>
    /\ pc[p] \in StorePcs
    /\ calls' = [calls EXCEPT ![p].store = 1]
    /\ LET rolled == Rollback(db, pend[p])
           closed == Close(rolled.db, rolled.pend)
       IN /\ db' = closed.db
          /\ pend' = [pend EXCEPT ![p] = closed.pend]
    /\ writer' = IF writer = p THEN None ELSE writer
    /\ track_id' = [track_id EXCEPT ![p] = NoId]
    /\ store_ret' = [store_ret EXCEPT ![p] = "error"]
    /\ pc' = [pc EXCEPT ![p] = AfterStore(NoId)]
    /\ UNCHANGED <<track_info, filepath, features, similar, store_loc, runs>>

\* find_similar_songs(track_id, k) returns its list to p
FindSimilarStep(p, k) ==
    /\ UNCHANGED normVars
    /\ pc[p] = "rank"
    /\ ~FindSimilarRaises(db, track_id[p])
    /\ calls' = [calls EXCEPT ![p].rank = @ + 1]
    /\ limit' = [limit EXCEPT ![p] = k]
    /\ scanned' = [scanned EXCEPT ![p] = CorpusScanned(db, track_id[p])]
    /\ \E fl \in Roundings(db, track_id[p]) :
        /\ rounding' = [rounding EXCEPT ![p] = fl]
        /\ similar' = [similar EXCEPT ![p] =
                         FindSimilarSongs(db, track_id[p], k, fl)]
    /\ pc' = [pc EXCEPT ![p] = "done"]
    /\ UNCHANGED <<db, pend, writer, track_info, filepath, features, track_id,
                   store_loc, store_ret, runs, jobVars>>

\* find_similar_songs(track_id) with the default limit, the printing of the
\* result and the end of add_song
Rank(p) == FindSimilarStep(p, DefaultLimit)

\* find_similar_songs raises, on the rows it reads or because a query fails
\* (storage unavailable, database is locked): it has a finally and no except,
\* add_song catches nothing, and the run ends with the exception
RankFail(p) ==
    /\ UNCHANGED normVars
    /\ pc[p] = "rank"
    /\ calls' = [calls EXCEPT ![p].rank = @ + 1]
    /\ pc' = [pc EXCEPT ![p] = "crashed"]
    /\ UNCHANGED <<db, pend, writer, addSongLocals, store_loc, store_ret,
                   runs, rankArgs, jobVars>>

\* ------------------------------------------------------------------ fetch_audio_features

\* the rows the job adds for the tracks tids, in the order of its loop: none
\* where sp.audio_features gave nothing or raised, else one with the values
\* of features.get
RECURSIVE JobRows(_, _, _)
JobRows(tids, out, id) ==
    IF tids = {} THEN {}
    ELSE LET t == CHOOSE x \in tids : \A y \in tids : x <= y
         IN IF out[t] = NoneRec
            THEN JobRows(tids \ {t}, out, id)
            ELSE {[id |-> id, track_id |-> t,
                   energy |-> out[t].energy, valence |-> out[t].valence,
                   tempo |-> out[t].tempo,
                   danceability |-> out[t].danceability]}
                 \cup JobRows(tids \ {t}, out, id + 1)

\* a job whose query returns every track
JobQuery_AllTracks ==
    /\ UNCHANGED normVars
    /\ job_pc = "idle"
    /\ runs < MaxRuns
    /\ runs' = runs + 1
    /\ job_runs' = job_runs + 1
    /\ job_tracks' = {t.id : t \in db.tracks}
    /\ job_pc' = "fetch"
    /\ UNCHANGED <<db, pend, writer, pc, addSongLocals, store_loc, store_ret,
                   calls, rankArgs>>

\* the job starts: db = SessionLocal() and the query for the tracks without
\* an audio feature row
JobQuery ==
    /\ UNCHANGED normVars
    /\ job_pc = "idle"
    /\ runs < MaxRuns
    /\ runs' = runs + 1
    /\ job_runs' = job_runs + 1
    /\ job_tracks' = {t.id : t \in {x \in db.tracks :
                          \A f \in db.features : f.track_id # x.id}}
    /\ job_pc' = "fetch"
    /\ UNCHANGED <<db, pend, writer, pc, addSongLocals, store_loc, store_ret,
                   calls, rankArgs>>

\* the loop over the tracks and db.commit(), then db.close()
JobCommit ==
    /\ UNCHANGED normVars
    /\ job_pc = "fetch"
    /\ \E out \in [job_tracks -> JobFeatureDicts \cup {NoneRec}] :
        LET rows == JobRows(job_tracks, out, NextId(db.features))
        IN /\ rows # {} => writer = None
           /\ db' = [db EXCEPT !.features = @ \cup rows]
    /\ job_pc' = "idle"
    /\ job_tracks' = {}
    /\ UNCHANGED <<pend, writer, pc, addSongLocals, store_loc, store_ret,
                   calls, runs, rankArgs, job_runs>>

\* the commit raises: db.rollback(), then db.close()
JobFail ==
    /\ UNCHANGED normVars
    /\ job_pc = "fetch"
    /\ job_pc' = "idle"
    /\ job_tracks' = {}
    /\ UNCHANGED <<db, pend, writer, pc, addSongLocals, store_loc, store_ret,
                   calls, runs, rankArgs, job_runs>>

\* ------------------------------------------------------------------ specifications

\* the runs of add_song and of the job one after another, as the command
\* line starts them
Next ==
    \/ job_pc = "idle" /\ Search(Main)
    \/ job_pc = "idle" /\ SearchFail(Main)
    \/ Download(Main)
    \/ Extract(Main)
    \/ StoreQueryArtist(Main)
    \/ StoreInsertArtist(Main)
    \/ StoreQueryAlbum(Main)
    \/ StoreInsertAlbum(Main)
    \/ StoreQueryTrack(Main)
    \/ StoreInsertTrack(Main)
    \/ StoreCommit(Main)
    \/ StoreFail(Main)
    \/ Rank(Main)
    \/ RankFail(Main)
    \/ ~Active(Main) /\ JobQuery
    \/ JobCommit
    \/ JobFail

Spec == Init /\ [][Next]_vars

\* runs of add_song in two operating-system processes on the same database
\* file
NextConc ==
    \/ \E p \in Procs : Search(p)
    \/ \E p \in Procs : SearchFail(p)
    \/ \E p \in Procs : Download(p)
    \/ \E p \in Procs : Extract(p)
    \/ \E p \in Procs : StoreQueryArtist(p)
    \/ \E p \in Procs : StoreInsertArtist(p)
    \/ \E p \in Procs : StoreQueryAlbum(p)
    \/ \E p \in Procs : StoreInsertAlbum(p)
    \/ \E p \in Procs : StoreQueryTrack(p)
    \/ \E p \in Procs : StoreInsertTrack(p)
    \/ \E p \in Procs : StoreCommit(p)
    \/ \E p \in Procs : StoreFail(p)
    \/ \E p \in Procs : Rank(p)
    \/ \E p \in Procs : RankFail(p)

SpecConc == Init /\ [][NextConc]_vars

\* runs of add_song in one process while the job runs in another
NextJob ==
    \/ Search(Main)
    \/ SearchFail(Main)
    \/ Download(Main)
    \/ Extract(Main)
    \/ StoreQueryArtist(Main)
    \/ StoreInsertArtist(Main)
    \/ StoreQueryAlbum(Main)
    \/ StoreInsertAlbum(Main)
    \/ StoreQueryTrack(Main)
    \/ StoreInsertTrack(Main)
    \/ StoreCommit(Main)
    \/ StoreFail(Main)
    \/ Rank(Main)
    \/ RankFail(Main)
    \/ JobQuery
    \/ JobCommit
    \/ JobFail

SpecJob == Init /\ [][NextJob]_vars

\* the steps a run of add_song takes once search_spotify has returned: each
\* is the return, or the exception, of a call of the single thread of
\* add_song
Advance(p) ==
    \/ Download(p)
    \/ Extract(p)
    \/ StoreQueryArtist(p)
    \/ StoreInsertArtist(p)
    \/ StoreQueryAlbum(p)
    \/ StoreInsertAlbum(p)
    \/ StoreQueryTrack(p)
    \/ StoreInsertTrack(p)
    \/ StoreCommit(p)
    \/ StoreFail(p)
    \/ Rank(p)
    \/ RankFail(p)

\* add_song and the job run as in Spec, and every call made returns or
\* raises: a run that has started is a sequential program and takes its next
\* step, and so does the job. The calls of the network are granted an end
\* too, although add_song sets no timeout for them. Whether a run or the job
\* is started at all is left open.
SpecLive ==
    /\ Init
    /\ [][Next]_vars
    /\ WF_vars(Advance(Main))
    /\ WF_vars(JobCommit \/ JobFail)

\* the catalog after the tracks 1..Len(fs) were stored with the features fs
CatalogOf(fs) ==
    [artists |-> {[id |-> 1, name |-> "a1", spotify_id |-> None] :
                     i \in {1} \cap DOMAIN fs},
     albums |-> {[id |-> 1, name |-> "b1", artist_id |-> 1,
                  spotify_id |-> None] : i \in {1} \cap DOMAIN fs},
     tracks |-> {[id |-> i, name |-> TNames[i], artist_id |-> 1,
                  album_id |-> 1, spotify_id |-> None,
                  preview_url |-> None] : i \in DOMAIN fs},
     features |-> {[id |-> i, track_id |-> i, energy |-> fs[i].energy,
                    valence |-> fs[i].valence, tempo |-> fs[i].tempo,
                    danceability |-> fs[i].danceability] : i \in DOMAIN fs}]

\* find_similar_songs is about to be called for track q on the catalog d
RankingOf(d, q) ==
    /\ db = d
    /\ pend = [p \in Procs |-> EmptyRows]
    /\ writer = None
    /\ pc = [p \in Procs |-> IF p = Main THEN "rank" ELSE "idle"]
    /\ track_info = [p \in Procs |-> NoneRec]
    /\ filepath = [p \in Procs |-> None]
    /\ features = [p \in Procs |-> NoneRec]
    /\ track_id = [p \in Procs |-> IF p = Main THEN q ELSE NoId]
    /\ similar = [p \in Procs |-> <<>>]
    /\ store_loc = [p \in Procs |-> NoLoc]
    /\ store_ret = [p \in Procs |-> "none"]
    /\ calls = [p \in Procs |-> NoCalls]
    /\ runs = 0
    /\ limit = [p \in Procs |-> DefaultLimit]
    /\ rounding = [p \in Procs |-> <<>>]
    /\ job_pc = "idle"
    /\ job_tracks = {}
    /\ job_runs = 0
    /\ scanned = [p \in Procs |-> {}]
    /\ norm_in = <<>>
    /\ norm_out = <<>>

\* the catalogs and query tracks the ranker is applied to: up to MaxTracks
\* tracks with features drawn from RankFeatureDicts, and the catalog of the
\* worked example with its query track
InitRank ==
    \/ \E n \in 0..MaxTracks :
         \E fs \in [1..n -> RankFeatureDicts] :
           \E q \in 1..MaxTracks : RankingOf(CatalogOf(fs), q)
    \/ RankingOf(CatalogOf(ExampleFeatures), Len(ExampleFeatures))

\* find_similar_songs(track_id, limit) called with a limit of the caller's
RankCall == \E k \in Limits : FindSimilarStep(Main, k)

NextRank ==
    \/ RankCall
    \/ RankFail(Main)

SpecRank == InitRank /\ [][NextRank]_vars

\* ------------------------------------------------------------------ normalize_track_id

\* A string is a sequence of pieces: the three texts normalize_track_id looks
\* for, each one piece, and single characters.
UriPrefix == "spotify:track:"

UrlScheme == "https://"

UrlMarker == "open.spotify.com/track/"

\* the characters of a track id
IdChars == {"A", "B"}

MaxIdLen == 2

\* how often normalize_track_id is applied to its own result
MaxApplications == 2

\* the plain ids
PlainIds == UNION {[1..n -> IdChars] : n \in 1..MaxIdLen}

\* what can follow the id: nothing, a query, a fragment, or both
Suffixes ==
    { <<>>, <<"?">>, <<"?", "A">>, <<"#", "A">>,
      <<"?", "A", "#", "A">>, <<"#", "A", "?", "A">> }

\* the forms of input of fetch_spotify_data_by_id: a URI, a URL with or
\* without its scheme, a plain id, and a plain id between blanks
AcceptedInputs ==
    UNION { { <<UriPrefix>> \o i \o x,
              <<UrlScheme, UrlMarker>> \o i \o x,
              <<UrlMarker>> \o i \o x,
              i \o x,
              <<" ">> \o i \o x \o <<" ">> } : i \in PlainIds, x \in Suffixes }

\* s.startswith(t)
StartsWith(s, t) == Len(s) >= 1 /\ s[1] = t

\* s.replace(t, ''): every occurrence of t is removed
Replace(s, t) == SelectSeq(s, LAMBDA c : c # t)

\* t in s
Contains(s, t) == \E i \in 1..Len(s) : s[i] = t

\* s.split(t)[-1]: what follows the last t, all of s when it has no t
AfterLast(s, t) ==
    IF ~Contains(s, t) THEN s
    ELSE LET last == CHOOSE i \in 1..Len(s) :
                         /\ s[i] = t
                         /\ \A j \in (i + 1)..Len(s) : s[j] # t
         IN SubSeq(s, last + 1, Len(s))

\* s.split(t)[0]: what precedes the first t, all of s when it has no t
BeforeFirst(s, t) ==
    IF ~Contains(s, t) THEN s
    ELSE LET first == CHOOSE i \in 1..Len(s) :
                          /\ s[i] = t
                          /\ \A j \in 1..(i - 1) : s[j] # t
         IN SubSeq(s, 1, first - 1)

\* s.strip()
RECURSIVE Strip(_)
Strip(s) ==
    IF s = <<>> THEN s
    ELSE IF s[1] = " " THEN Strip(Tail(s))
    ELSE IF s[Len(s)] = " " THEN Strip(SubSeq(s, 1, Len(s) - 1))
    ELSE s

normalize_track_id(s) ==
    IF StartsWith(s, UriPrefix)
    THEN Replace(s, UriPrefix)
    ELSE IF Contains(s, UrlMarker)
    THEN BeforeFirst(AfterLast(s, UrlMarker), "?")
    ELSE Strip(BeforeFirst(BeforeFirst(s, "?"), "#"))

\* normalize_track_id is about to be applied to an input of an accepted form
InitNorm ==
    /\ db = EmptyRows
    /\ pend = [p \in Procs |-> EmptyRows]
    /\ writer = None
    /\ pc = [p \in Procs |-> "idle"]
    /\ track_info = [p \in Procs |-> NoneRec]
    /\ filepath = [p \in Procs |-> None]
    /\ features = [p \in Procs |-> NoneRec]
    /\ track_id = [p \in Procs |-> NoId]
    /\ similar = [p \in Procs |-> <<>>]
    /\ store_loc = [p \in Procs |-> NoLoc]
    /\ store_ret = [p \in Procs |-> "none"]
    /\ calls = [p \in Procs |-> NoCalls]
    /\ runs = 0
    /\ limit = [p \in Procs |-> DefaultLimit]
    /\ rounding = [p \in Procs |-> <<>>]
    /\ job_pc = "idle"
    /\ job_tracks = {}
    /\ job_runs = 0
    /\ scanned = [p \in Procs |-> {}]
    /\ norm_in \in AcceptedInputs
    /\ norm_out = <<>>

\* normalize_track_id applied to the input, then to what it returned
NormalizeCall ==
    /\ Len(norm_out) < MaxApplications
    /\ norm_out' = Append(norm_out,
                          normalize_track_id(IF norm_out = <<>> THEN norm_in
                                             ELSE norm_out[Len(norm_out)]))
    /\ UNCHANGED <<norm_in, db, pend, writer, pc, addSongLocals, store_loc,
                   store_ret, calls, runs, rankArgs, jobVars>>

NextNorm == NormalizeCall

SpecNorm == InitNorm /\ [][NextNorm]_vars

\* ------------------------------------------------------------------ properties

FeaturesOf(d, tid) == {f \in d.features : f.track_id = tid}

\* the rows of a table with a given key
ArtistsNamed(rows, name) == {a \in rows : a.name = name}

AlbumsOf(rows, name, aid) == {a \in rows : a.name = name /\ a.artist_id = aid}

TracksWith(rows, sid) == {t \in rows : t.spotify_id = sid}

\* the stage at which a finished run of add_song gave up, "none" for a run
\* that reached its end
FailedStage(p) ==
    IF track_info[p] = NoneRec THEN "metadata"
    ELSE IF filepath[p] = None THEN "download"
    ELSE IF features[p] = NoneRec THEN "extract"
    ELSE IF track_id[p] = NoId THEN "store"
    ELSE "none"

Exits == {"metadata", "download", "extract", "store", "none"}

\* C1: over any sequence of ingestions the catalog never holds two Artist
\* rows with one name nor two Album rows with one (name, artist_id); a name
\* that is in the catalog keeps the row (and so the id) it got first, and a
\* run that has looked its artist up holds that id.
C1_IdempotentUpsert ==
    [][ /\ \A a, b \in db'.artists : a.name = b.name => a = b
        /\ \A a, b \in db'.albums :
              (a.name = b.name /\ a.artist_id = b.artist_id) => a = b
        /\ \A n \in ArtistNames :
              ArtistsNamed(db.artists, n) # {}
                  => ArtistsNamed(db'.artists, n) = ArtistsNamed(db.artists, n)
        /\ \A n \in AlbumNames : \A aid \in Ids(db.artists) :
              AlbumsOf(db.albums, n, aid) # {}
                  => AlbumsOf(db'.albums, n, aid) = AlbumsOf(db.albums, n, aid)
        /\ \A p \in Procs :
              pc'[p] \in {"album_q", "album_ins", "track_q", "track_ins", "commit"}
                  => \A a \in ArtistsNamed(db'.artists, track_info'[p].artist) :
                        store_loc'[p].artist = a.id
        /\ \A p \in Procs :
              pc'[p] \in {"track_q", "track_ins", "commit"}
                  => \A a \in AlbumsOf(db'.albums, track_info'[p].album,
                                         store_loc'[p].artist) :
                        store_loc'[p].album = a.id
      ]_vars

\* a second track was stored under the artist and the album of the first
C1_Witness ==
    /\ store_ret[Main] = "created"
    /\ Cardinality(db.tracks) = 2
    /\ Cardinality(db.artists) = 1
    /\ Cardinality(db.albums) = 1

\* C2: after sequential ingestions every non-null spotify_id is on at most
\* one Track row, and that row has exactly one AudioFeature row.
C2_UniqueExternalId ==
    \A sid \in SpotifyIds \ {None} :
        /\ Cardinality(TracksWith(db.tracks, sid)) <= 1
        /\ \A t \in TracksWith(db.tracks, sid) :
              Cardinality(FeaturesOf(db, t.id)) = 1

\* the same spotify_id was ingested a second time
C2_Witness ==
    /\ pc[Main] = "done"
    /\ store_ret[Main] = "existing"
    /\ track_info[Main].spotify_id # None
    /\ Cardinality(TracksWith(db.tracks, track_info[Main].spotify_id)) = 1
    /\ Cardinality(FeaturesOf(db, track_id[Main])) = 1

\* C3: a run whose resolved spotify_id is already in the catalog downloads
\* no audio and extracts no features.
C3_DuplicateSkipsAcquisition ==
    \A p \in Procs :
        ( /\ track_info[p] \in TrackInfos
          /\ track_info[p].spotify_id # None
          /\ store_ret[p] # "created"
          /\ TracksWith(db.tracks, track_info[p].spotify_id) # {} )
            => (calls[p].download = 0 /\ calls[p].extract = 0)

\* C4: while store_in_database runs for a spotify_id that is already in the
\* catalog no committed row changes, and the call (unless it raises) returns
\* the id of the existing track and leaves nothing flushed behind.
C4_ReingestNoOp ==
    [][ \A p \in Procs :
          ( /\ pc[p] \in StorePcs
            /\ track_info[p].spotify_id # None
            /\ TracksWith(db.tracks, track_info[p].spotify_id) # {} )
            => /\ db' = db
               /\ (pc'[p] \notin StorePcs /\ store_ret'[p] # "error")
                    => /\ store_ret'[p] = "existing"
                       /\ \E t \in TracksWith(db.tracks, track_info[p].spotify_id) :
                             track_id'[p] = t.id
                       /\ pend'[p] = EmptyRows
      ]_vars

\* a known spotify_id was re-ingested under an artist name the catalog does
\* not hold: the artist and album rows flushed before the track query are gone
C4_Witness ==
    /\ store_ret[Main] = "existing"
    /\ track_info[Main].spotify_id # None
    /\ store_loc[Main].artist # NoId
    /\ store_loc[Main].album # NoId
    /\ ArtistsNamed(db.artists, track_info[Main].artist) = {}
    /\ store_loc[Main].album \notin Ids(db.albums)

\* C5: with a spotify_id of None the track upsert always creates a Track row.
C5_NullIdAlwaysCreates ==
    \A p \in Procs :
        ( /\ track_info[p] \in TrackInfos
          /\ track_info[p].spotify_id = None
          /\ store_ret[p] \in {"existing", "created"} )
            => store_ret[p] = "created"

\* C6: a store_in_database call that raises returns None and leaves the
\* committed rows as they were; committed rows change only in the commit
\* that ends a call, which adds one Track, its one AudioFeature and the
\* Artist and Album the Track references, all in the same step.
C6_AtomicStore ==
    [][ /\ \A p \in Procs :
              (pc[p] \in StorePcs /\ store_ret'[p] = "error")
                  => (track_id'[p] = NoId /\ db' = db /\ pend'[p] = EmptyRows
                      /\ pc'[p] = "done")
        /\ db' # db
              => \E p \in Procs :
                    /\ pc[p] = "commit"
                    /\ store_ret'[p] = "created"
                    /\ db.artists \subseteq db'.artists
                    /\ db.albums \subseteq db'.albums
                    /\ db.tracks \subseteq db'.tracks
                    /\ db.features \subseteq db'.features
                    /\ \E t \in db'.tracks \ db.tracks :
                          /\ db'.tracks = db.tracks \cup {t}
                          /\ t.id = track_id'[p]
                          /\ t.artist_id \in Ids(db'.artists)
                          /\ t.album_id \in Ids(db'.albums)
                          /\ \E f \in db'.features \ db.features :
                                /\ db'.features = db.features \cup {f}
                                /\ f.track_id = t.id
      ]_vars

\* a call raised after it had flushed an artist, an album and a track, and
\* none of the three is in the catalog
C6_Witness ==
    /\ store_ret[Main] = "error"
    /\ pc[Main] = "done"
    /\ store_loc[Main].track # NoId
    /\ store_loc[Main].track \notin Ids(db.tracks)
    /\ store_loc[Main].artist \notin Ids(db.artists)
    /\ store_loc[Main].album \notin Ids(db.albums)

\* C7: the catalog (committed or flushed rows) changes only in a step of a
\* run that is inside store_in_database; the search, download and extract
\* stages leave it as it is.
C7_NoWriteBeforeStore ==
    [][ (db' # db \/ pend' # pend)
            => \E p \in Procs : pc[p] \in StorePcs /\ pc'[p] # pc[p]
      ]_vars

\* a run gave up at feature extraction over a catalog that holds a track
C7_Witness ==
    /\ pc[Main] = "done"
    /\ calls[Main].extract = 1
    /\ features[Main] = NoneRec
    /\ db.tracks # {}

\* C8: a stage that returned None is the last stage of its run.
C8_FailureEndsRun ==
    \A p \in Procs :
        /\ (calls[p].search = 1 /\ track_info[p] = NoneRec)
              => /\ pc[p] = "done"
                 /\ calls[p].download = 0 /\ calls[p].extract = 0
                 /\ calls[p].store = 0 /\ calls[p].rank = 0
        /\ (calls[p].download = 1 /\ filepath[p] = None)
              => /\ pc[p] = "done"
                 /\ calls[p].extract = 0 /\ calls[p].store = 0
                 /\ calls[p].rank = 0
        /\ (calls[p].extract = 1 /\ features[p] = NoneRec)
              => /\ pc[p] = "done"
                 /\ calls[p].store = 0 /\ calls[p].rank = 0
        /\ (calls[p].store = 1 /\ pc[p] \notin StorePcs /\ track_id[p] = NoId)
              => /\ pc[p] = "done"
                 /\ calls[p].rank = 0

\* a run whose download returned None
C8_Witness ==
    /\ pc[Main] = "done"
    /\ calls[Main].download = 1
    /\ filepath[Main] = None

\* C9: what add_song returns to its caller after a failed stage differs from
\* what it returns at every other exit, so the caller can tell the failed
\* stage.
C9_TaggedFailure ==
    \A p \in Procs :
        (pc[p] = "done" /\ FailedStage(p) # "none")
            => \A e \in Exits \ {FailedStage(p)} :
                  AddSongReturn(e) # AddSongReturn(FailedStage(p))

\* C10: when two concurrent ingestions have finished, every non-null
\* spotify_id is on at most one Track row.
C10_ConcurrentSameId ==
    (\A p \in Procs : ~Active(p))
        => \A sid \in SpotifyIds \ {None} :
              Cardinality(TracksWith(db.tracks, sid)) <= 1

\* ------------------------------------------------------------------ ranking

\* s >= t as float64 numbers
NotBelow(s, t) ==
    \/ ExactCompare(s, t) = 1
    \/ ExactCompare(s, t) = 0 /\ s.err >= t.err

\* the feature row of the track an entry of the result names (the tracks of
\* the ranking catalogs have different names)
RowOfEntry(e) == CHOOSE f \in db.features : TNames[f.track_id] = e.track

IsZeroRow(f) ==
    f.energy = 0 /\ f.valence = 0 /\ f.tempo = 0 /\ f.danceability = 0

\* [energy, valence, tempo / 200, danceability] in two-hundredths, the
\* features being stored in hundredths
StatedVector(f) ==
    <<2 * f.energy, 2 * f.valence, f.tempo, 2 * f.danceability>>

\* C11: the list find_similar_songs returns is in descending order of
\* similarity: of two adjacent entries the earlier has a score not below
\* the later's.
C11_DescendingOrder ==
    \A p \in Procs : \A i \in 1..(Len(similar[p]) - 1) :
        NotBelow(similar[p][i].similarity, similar[p][i + 1].similarity)

\* a list of three entries was returned whose first is not the first row of
\* the corpus and scores strictly above its second
C11_Witness ==
    /\ pc[Main] = "done"
    /\ Len(similar[Main]) = 3
    /\ similar[Main][1].track = "t3"
    /\ track_id[Main] = 4
    /\ ExactCompare(similar[Main][1].similarity,
                    similar[Main][2].similarity) = 1

\* C12: the vector of the query track and of every corpus track is
\* [energy, valence, tempo / 200, danceability] in that order, the tempo
\* divided by 200 and the others as stored, also outside [0, 1]; the score of
\* an entry is the cosine similarity of the two vectors.
C12_VectorAndCosine ==
    /\ \A f \in db.features : FeatureVector(f) = StatedVector(f)
    /\ \A e \in {similar[Main][i] : i \in 1..Len(similar[Main])} :
          LET q == StatedVector(First(FeaturesOf(db, track_id[Main])))
              v == StatedVector(RowOfEntry(e))
          IN IF Dot(q, q) = 0 \/ Dot(v, v) = 0
             THEN e.similarity.num = 0
             ELSE /\ e.similarity.num = Dot(Primitive(q), Primitive(v))
                  /\ e.similarity.den2 =
                        Dot(Primitive(q), Primitive(q))
                            * Dot(Primitive(v), Primitive(v))

\* a track with features below 0 was ranked and got a score below 0
C12_Witness ==
    /\ pc[Main] = "done"
    /\ Len(similar[Main]) >= 2
    /\ \E i \in 1..Len(similar[Main]) :
          /\ similar[Main][i].features.energy < 0
          /\ similar[Main][i].similarity.num < 0

\* C13: when the vector of the query or of a corpus track is all zero, the
\* score is 0 and find_similar_songs does not raise.
C13_ZeroVector ==
    /\ \A e \in {similar[Main][i] : i \in 1..Len(similar[Main])} :
          ( \/ IsZeroRow(First(FeaturesOf(db, track_id[Main])))
            \/ IsZeroRow(RowOfEntry(e)) )
              => (e.similarity.num = 0 /\ e.similarity.err = 0)
    /\ ( /\ pc[Main] = "rank"
         /\ \E f \in db.features : IsZeroRow(f) )
           => ~FindSimilarRaises(db, track_id[Main])

\* a zero vector was ranked against a non-zero query, and scored 0 next to a
\* track that did not
C13_Witness ==
    /\ pc[Main] = "done"
    /\ FeaturesOf(db, track_id[Main]) # {}
    /\ ~IsZeroRow(First(FeaturesOf(db, track_id[Main])))
    /\ \E i, j \in 1..Len(similar[Main]) :
          /\ IsZeroRow(RowOfEntry(similar[Main][i]))
          /\ similar[Main][i].similarity.num = 0
          /\ similar[Main][j].similarity.num # 0

\* the entries of the returned list whose two vectors are both non-zero
NonZeroEntries ==
    {e \in {similar[Main][i] : i \in 1..Len(similar[Main])} :
        /\ ~IsZeroRow(First(FeaturesOf(db, track_id[Main])))
        /\ ~IsZeroRow(RowOfEntry(e))}

IdenticalToQuery(e) ==
    StatedVector(RowOfEntry(e))
        = StatedVector(First(FeaturesOf(db, track_id[Main])))

ExampleRanked ==
    /\ pc[Main] = "done"
    /\ db = CatalogOf(ExampleFeatures)
    /\ track_id[Main] = Len(ExampleFeatures)
    /\ limit[Main] >= 2

\* C15: with the corpus tracks A (tempo 120, energy 0.8, danceability 0.7,
\* valence 0.6) and B (tempo 60, energy 0.1, danceability 0.1, valence 0.1)
\* and the query Q (tempo 121, energy 0.79, danceability 0.71, valence 0.61)
\* A comes before B, and in every returned list a track with a strictly
\* higher cosine comes before one with a lower.
C15_HigherScoreFirst ==
    /\ ExampleRanked
          => (Len(similar[Main]) = 2
              /\ similar[Main][1].features.tempo = 120
              /\ similar[Main][1].track = TNames[2]
              /\ similar[Main][2].track = TNames[1])
    /\ \A i, j \in 1..Len(similar[Main]) :
          ExactCompare(similar[Main][i].similarity,
                       similar[Main][j].similarity) = 1 => i < j

\* Q was ranked against B and A and A, stored after B, is the first entry
C15_Witness ==
    /\ ExampleRanked
    /\ similar[Main][1].features.energy = 80
    /\ ExactCompare(similar[Main][1].similarity,
                    similar[Main][2].similarity) = 1

Min(a, b) == IF a < b THEN a ELSE b

\* C16: of a ranked list of n entries find_similar_songs with limit k
\* returns the first min(k, n), in the same order: it never pads and never
\* fails for want of entries (k = 5 on a corpus of 3 gives 3 entries).
C16_TopK ==
    (pc[Main] = "done" /\ FeaturesOf(db, track_id[Main]) # {})
        => LET ranked == Similarities(db, track_id[Main], rounding[Main])
               m == Min(limit[Main], Len(ranked))
           IN /\ Len(similar[Main]) = m
              /\ \A i \in 1..m : similar[Main][i] = ranked[i]

\* the default limit of 5 on a corpus of 3 tracks gave 3 entries
C16_Witness ==
    /\ pc[Main] = "done"
    /\ limit[Main] = DefaultLimit
    /\ Cardinality(db.features) = 4
    /\ FeaturesOf(db, track_id[Main]) # {}
    /\ Len(similar[Main]) = 3

\* no track other than tid has a feature row
NoOtherFeatures(d, tid) == \A f \in d.features : f.track_id = tid

\* C17: when no other track has a feature vector the ranking is the empty
\* list, and the rows do not make find_similar_songs raise.
C17_EmptyCorpus ==
    \A p \in Procs :
        /\ ( /\ pc[p] = "rank"
             /\ NoOtherFeatures(db, track_id[p]) )
               => ~FindSimilarRaises(db, track_id[p])
        /\ ( /\ pc[p] = "done"
             /\ calls[p].rank = 1
             /\ NoOtherFeatures(db, track_id[p]) )
               => similar[p] = <<>>

\* the first track of the catalog was stored with its features and ranked
C17_Witness ==
    /\ pc[Main] = "done"
    /\ calls[Main].rank = 1
    /\ store_ret[Main] = "created"
    /\ Cardinality(FeaturesOf(db, track_id[Main])) = 1
    /\ Cardinality(db.features) = 1
    /\ similar[Main] = <<>>

OtherTrackNames(d, tid) ==
    {TNames[f.track_id] : f \in {o \in d.features : o.track_id # tid}}

EntryNames(entries) == {entries[i].track : i \in 1..Len(entries)}

\* C19: the corpus is every stored feature vector but the query track's own:
\* before the truncation the ranked list has one entry for each other track
\* that has a feature vector, and none for the query track.
C19_CorpusIsTheOthers ==
    FeaturesOf(db, track_id[Main]) # {}
        => LET ranked == Similarities(db, track_id[Main], rounding[Main])
           IN /\ EntryNames(ranked) = OtherTrackNames(db, track_id[Main])
              /\ Len(ranked) = Cardinality(OtherTrackNames(db, track_id[Main]))
              /\ TNames[track_id[Main]] \notin EntryNames(ranked)
              /\ pc[Main] = "done"
                    => /\ EntryNames(similar[Main]) \subseteq EntryNames(ranked)
                       /\ Len(similar[Main]) = Min(limit[Main], Len(ranked))

\* the second of four tracks was ranked with the default limit and the list
\* names the three others
C19_Witness ==
    /\ pc[Main] = "done"
    /\ track_id[Main] = 2
    /\ limit[Main] = DefaultLimit
    /\ EntryNames(similar[Main]) = {TNames[1], TNames[3], TNames[4]}

\* ------------------------------------------------------------------ stages of add_song

\* the place of a position of add_song in the order of its stages
StageIndex(at) ==
    CASE at = "idle" -> 0
      [] at = "download" -> 1
      [] at = "extract" -> 2
      [] at = "artist_q" -> 3
      [] at = "artist_ins" -> 4
      [] at = "album_q" -> 5
      [] at = "album_ins" -> 6
      [] at = "track_q" -> 7
      [] at = "track_ins" -> 8
      [] at = "commit" -> 9
      [] at = "rank" -> 10
      [] at \in {"done", "crashed"} -> 11

\* the stages a run has called are a prefix of search, download, extract,
\* store, rank, each called once, and the run stands right after them
StagesInOrder(p) ==
    /\ \A s \in DOMAIN NoCalls : calls[p][s] <= 1
    /\ calls[p].rank = 1 => calls[p].store = 1
    /\ calls[p].store = 1 => calls[p].extract = 1
    /\ calls[p].extract = 1 => calls[p].download = 1
    /\ calls[p].download = 1 => calls[p].search = 1
    /\ pc[p] = "download" => (calls[p].search = 1 /\ calls[p].download = 0)
    /\ pc[p] = "extract" => (calls[p].download = 1 /\ calls[p].extract = 0)
    /\ pc[p] = "artist_q" => (calls[p].extract = 1 /\ calls[p].store = 0)
    /\ pc[p] = "rank" => (calls[p].store = 1 /\ calls[p].rank = 0)

\* the next step of the run can be the failure of its stage, which ends it
FailureNext(p) ==
    /\ pc[p] = "download"
          => ENABLED (Download(p) /\ filepath'[p] = None /\ pc'[p] = "done")
    /\ pc[p] = "extract"
          => ENABLED (Extract(p) /\ features'[p] = NoneRec /\ pc'[p] = "done")
    /\ pc[p] \in StorePcs
          => ENABLED (StoreFail(p) /\ track_id'[p] = NoId /\ pc'[p] = "done")
    /\ pc[p] = "rank"
          => ENABLED (RankFail(p) /\ pc'[p] = "crashed")
    /\ (~Active(p) /\ runs < MaxRuns /\ job_pc = "idle")
          => ENABLED (Search(p) /\ track_info'[p] = NoneRec /\ pc'[p] = "done")

\* C20: a run of add_song goes through metadata lookup, audio acquisition,
\* feature extraction, catalog write and ranking in that order and ends;
\* each stage is called at most once in a run and none is entered again, and
\* at every stage that is not the end the run can fail and end.
C20_StagesInOrder ==
    /\ [](StagesInOrder(Main) /\ FailureNext(Main))
    /\ [][ /\ pc'[Main] # pc[Main]
              => \/ StageIndex(pc'[Main]) > StageIndex(pc[Main])
                 \/ ~Active(Main) /\ runs' = runs + 1
           /\ runs' = runs
              => \A s \in DOMAIN NoCalls : calls'[Main][s] >= calls[Main][s]
         ]_vars

\* a run went through all five stages and ended, after a run that failed
C20_Witness ==
    /\ pc[Main] = "done"
    /\ runs >= 2
    /\ \A s \in DOMAIN NoCalls : calls[Main][s] = 1
    /\ Len(similar[Main]) >= 1

\* ------------------------------------------------------------------ catalog

\* C21: every committed Track row references an Artist row and an Album row
\* that exist, and that Album row references the same Artist.
C21_ReferentialIntegrity ==
    \A t \in db.tracks :
        /\ \E a \in db.artists : a.id = t.artist_id
        /\ \E b \in db.albums : b.id = t.album_id /\ b.artist_id = t.artist_id

\* tracks of two artists are in the catalog, each with an album of its
\* artist
C21_Witness ==
    /\ \E t, u \in db.tracks : t.artist_id # u.artist_id
    /\ Cardinality(db.albums) = 2
    /\ \A p \in Procs : ~Active(p)

\* C22: whatever the order and the interleaving of add_song runs and job
\* runs, no track has two AudioFeature rows, and no feature row is without
\* its track.
C22_OneFeatureRowPerTrack ==
    /\ \A t \in db.tracks : Cardinality(FeaturesOf(db, t.id)) <= 1
    /\ \A f, g \in db.features : f.id = g.id => f = g
    /\ \A f \in db.features : \E t \in db.tracks : t.id = f.track_id

\* the job has made its query and is about to commit while add_song is about
\* to commit a second track with its features
C22_Witness ==
    /\ job_pc = "fetch"
    /\ pc[Main] = "commit"
    /\ Cardinality(db.tracks) = 1
    /\ Cardinality(db.features) = 1

\* C23: every stored feature row has all four values (energy, valence, tempo,
\* danceability), each one a value the extractor returned; no operation
\* commits or leaves pending a feature row with a value missing.
C23_FeatureRowsComplete ==
    \A f \in db.features \cup UNION {pend[p].features : p \in Procs} :
        /\ \A k \in {"energy", "valence", "tempo", "danceability"} :
              f[k] # NullNum
        /\ \E d \in FeatureDicts :
              /\ f.energy = d.energy /\ f.valence = d.valence
              /\ f.tempo = d.tempo /\ f.danceability = d.danceability

\* two feature rows were stored and the job has run over them
C23_Witness ==
    /\ Cardinality(db.features) = 2
    /\ job_runs >= 1
    /\ job_pc = "idle"
    /\ \E f, g \in db.features : f.tempo # g.tempo

\* the scores s and t are the same float64 number
SameScore(s, t) == ExactCompare(s, t) = 0 /\ s.err = t.err

\* C24: the sort is stable: of two entries of the returned list the earlier
\* has the strictly higher score, or the two scores are exactly equal and
\* the earlier entry's row comes first in the corpus scan. This order leaves
\* one arrangement only, so the same corpus and scores give the same list.
C24_StableOrder ==
    \A i, j \in 1..Len(similar[Main]) :
        i < j =>
            \/ ExactCompare(similar[Main][i].similarity,
                            similar[Main][j].similarity) = 1
            \/ /\ SameScore(similar[Main][i].similarity,
                             similar[Main][j].similarity)
               /\ RowOfEntry(similar[Main][i]).id
                     < RowOfEntry(similar[Main][j]).id
            \/ /\ ExactCompare(similar[Main][i].similarity,
                                similar[Main][j].similarity) = 0
               /\ similar[Main][i].similarity.err
                     > similar[Main][j].similarity.err

\* three entries were returned: the last row of the corpus first, then the
\* first two rows, of exactly equal score, in the order of the scan
C24_Witness ==
    /\ pc[Main] = "done"
    /\ Len(similar[Main]) = 3
    /\ similar[Main][1].track = TNames[4]
    /\ similar[Main][2].track = TNames[1]
    /\ similar[Main][3].track = TNames[2]
    /\ SameScore(similar[Main][2].similarity, similar[Main][3].similarity)
    /\ ExactCompare(similar[Main][1].similarity,
                    similar[Main][2].similarity) = 1

\* C25: the album find-or-create is scoped by artist: no two Album rows have
\* the same name and the same artist, tracks of different artists never
\* share an Album row, and the album of a track just created is the row
\* named track_info.album under the artist named track_info.artist.
C25_AlbumPerArtist ==
    /\ \A b, c \in db.albums :
          (b.name = c.name /\ b.artist_id = c.artist_id) => b = c
    /\ \A t, u \in db.tracks :
          t.artist_id # u.artist_id => t.album_id # u.album_id
    /\ \A p \in Procs :
          (pc[p] \in {"rank", "done"} /\ store_ret[p] = "created")
              => \E t \in db.tracks, b \in db.albums, a \in db.artists :
                    /\ t.id = track_id[p]
                    /\ b.id = t.album_id
                    /\ b.name = track_info[p].album
                    /\ a.id = b.artist_id
                    /\ a.name = track_info[p].artist

\* the same album name is stored under two artists, as two rows, and one of
\* the two rows is shared by two tracks
C25_Witness ==
    /\ Cardinality(db.albums) = 2
    /\ \A b, c \in db.albums : b.name = c.name
    /\ \E b, c \in db.albums : b.artist_id # c.artist_id
    /\ \E t, u \in db.tracks : t # u /\ t.album_id = u.album_id
    /\ \A p \in Procs : ~Active(p)

\* C26: the catalog is append-only: no step of store_in_database (or of any
\* other operation) changes or removes a committed Artist, Album, Track or
\* AudioFeature row; a step adds rows or leaves the catalog as it is.
C26_AppendOnly ==
    [][/\ db.artists \subseteq db'.artists
       /\ db.albums \subseteq db'.albums
       /\ db.tracks \subseteq db'.tracks
       /\ db.features \subseteq db'.features]_vars

\* a store failed and was rolled back after an earlier one had committed its
\* rows, which are all still there
C26_Witness ==
    /\ store_ret[Main] = "error"
    /\ runs = 2
    /\ Cardinality(db.artists) = 1
    /\ Cardinality(db.albums) = 1
    /\ Cardinality(db.tracks) = 1
    /\ Cardinality(db.features) = 1

\* C27: no operation blocks indefinitely and a call that times out is the
\* failure of its stage: every run of add_song that was started reaches
\* done, the end of add_song or the return of a failed stage.
C27_EveryRunEnds ==
    \A n \in 1..MaxRuns :
        (runs = n /\ pc[Main] # "idle") ~> (runs = n /\ pc[Main] = "done")

\* the run p found its track in the catalog: store_in_database returned the
\* id of the existing row
OnDuplicatePath(p) == store_ret[p] = "existing"

\* C28: when store_in_database returns the id of an existing track, the step
\* that finds the duplicate leaves the catalog as it was and nothing of the
\* run stays pending, add_song goes on to the ranking, and every score of
\* the list is the cosine of the corpus row with the feature row stored for
\* the existing track, not with the features extracted in the run.
C28_DuplicateRanksStored ==
    [][/\ (OnDuplicatePath(Main)' /\ ~OnDuplicatePath(Main))
            => /\ db' = db
               /\ pend'[Main] = EmptyRows
               /\ pc'[Main] = "rank"
               /\ track_id'[Main] \in Ids(db.tracks)
       /\ (OnDuplicatePath(Main)' /\ pc'[Main] = "done")
            => \A i \in 1..Len(similar'[Main]) :
                  similar'[Main][i].similarity
                    = CosineSimilarity(
                          StatedVector(First(FeaturesOf(db', track_id'[Main]))),
                          StatedVector(similar'[Main][i].features),
                          similar'[Main][i].similarity.err)]_vars

\* a duplicate run extracted other features than the ones stored for its
\* track and was ranked against another track
C28_Witness ==
    /\ OnDuplicatePath(Main)
    /\ pc[Main] = "done"
    /\ Len(similar[Main]) = 1
    /\ features[Main].tempo
          # First(FeaturesOf(db, track_id[Main])).tempo

\* C29: when the query track has no stored feature row, find_similar_songs
\* does not raise on the rows of the catalog and returns the empty list
\* without running the corpus query and without computing any score.
C29_NoQueryVector ==
    FeaturesOf(db, track_id[Main]) = {}
        => /\ ~FindSimilarRaises(db, track_id[Main])
           /\ pc[Main] = "done"
                 => /\ similar[Main] = <<>>
                    /\ scanned[Main] = {}
                    /\ DOMAIN rounding[Main] = {}

\* find_similar_songs has returned for a track without a feature row while
\* other tracks have feature rows
C29_Witness ==
    /\ pc[Main] = "done"
    /\ calls[Main].rank = 1
    /\ FeaturesOf(db, track_id[Main]) = {}
    /\ Cardinality(db.features) = 2
    /\ similar[Main] = <<>>

\* C30: for every input of an accepted form (URI, URL or plain id, with or
\* without a ?query or #fragment after it) the result of normalize_track_id
\* has no prefix, no '?' and no '#', and normalize_track_id applied to the
\* result returns the result.
C30_PlainAndIdempotent ==
    /\ Len(norm_out) >= 1
          => \A t \in {UriPrefix, UrlScheme, UrlMarker, "?", "#"} :
                ~Contains(norm_out[1], t)
    /\ Len(norm_out) >= 2 => norm_out[2] = norm_out[1]

====
